---------------------------- MODULE Spec2Model ----------------------------
(***************************************************************************)
(* Model of the DS18B20 temperature monitor (src/main.py).                 *)
(*                                                                         *)
(* Text is a sequence of one-character strings, so that str.split,         *)
(* slicing, float() and str() are computed as Python computes them.        *)
(* A Python call yields a result record: either a returned value or a      *)
(* raised exception.                                                       *)
(*                                                                         *)
(* Three specifications:                                                   *)
(*   Spec        the script run as __main__, from its first statement;     *)
(*   ReaderSpec  the Thermometer class driven through its methods;         *)
(*   LoopSpec    the monitoring routine, lines 121-154 of the script,      *)
(*               started at line 121 (past the platform guard).            *)
(***************************************************************************)
EXTENDS Integers, Sequences, FiniteSets, TLC

VARIABLES
    host,           \* the operating system the process runs on (environment)
    fs,             \* device path -> content of its w1_slave file, or NoFile
    clock,          \* wall clock, seconds since midnight of day 0
    pc,             \* control position of the process / of the caller
    exitCode,       \* process exit status, Running while it runs
    ds18b20_roots,  \* Thermometer.ds18b20_roots, the glob result
    actual_temp,    \* variable actual_temp of __main__
    actual_time,    \* variable actual_time of __main__
    tick,           \* number of loop iterations begun
    stdout,         \* lines printed, in order
    payloads,       \* data strings built for pushData, in order
    coroutines,     \* pushData coroutine objects created and never awaited
    sent,           \* messages handed to sender.send_messages, in order
    opened,         \* paths opened by read_file during the latest call
    tickStart,      \* clock value at the start of the current iteration
    ret             \* result of the latest Thermometer method call

vars == <<host, fs, clock, pc, exitCode, ds18b20_roots, actual_temp,
          actual_time, tick, stdout, payloads, coroutines, sent, opened,
          tickStart, ret>>

-----------------------------------------------------------------------------
(* Bounds of the model *)

MaxSuffixLen == 3   \* longest text after the two-character prefix
MaxTokens == 11     \* most tokens on the second line
MaxTicks == 3       \* loop iterations explored

(* Program constants *)

TokenIndex == 9         \* second_line.split(" ")[9]
LineIndex == 1          \* content.split("\n")[1]
PrefixLen == 2          \* temperature_data[2:]
Divisor == 1000         \* float(...) / 1000
SleepSeconds == 300     \* time.sleep(60*5)
MotdSeconds == 3        \* time.sleep(3)
ExitFailure == 1        \* exit(1)
DaySeconds == 86400     \* %H:%M:%S wraps every day

Running == -1
NoFile == <<"ENOENT">>   \* the path names no file
None == "None"

-----------------------------------------------------------------------------
(* Python values *)

Returns(v) == [raised |-> FALSE, exc |-> None, value |-> v]
Raises(e) == [raised |-> TRUE, exc |-> e, value |-> None]

Digits == {"0", "1", "2", "3", "4", "5", "6", "7", "8", "9"}

DigitVal(c) ==
    CASE c = "0" -> 0 [] c = "1" -> 1 [] c = "2" -> 2 [] c = "3" -> 3
      [] c = "4" -> 4 [] c = "5" -> 5 [] c = "6" -> 6 [] c = "7" -> 7
      [] c = "8" -> 8 [] c = "9" -> 9

DigitChar(n) ==
    CASE n = 0 -> "0" [] n = 1 -> "1" [] n = 2 -> "2" [] n = 3 -> "3"
      [] n = 4 -> "4" [] n = 5 -> "5" [] n = 6 -> "6" [] n = 7 -> "7"
      [] n = 8 -> "8" [] n = 9 -> "9"

RECURSIVE Pow10(_)
Pow10(n) == IF n = 0 THEN 1 ELSE 10 * Pow10(n - 1)

RECURSIVE DigitsToNat(_)
DigitsToNat(s) ==
    IF s = <<>> THEN 0
    ELSE 10 * DigitsToNat(SubSeq(s, 1, Len(s) - 1)) + DigitVal(s[Len(s)])

RECURSIVE NatToDigits(_)
NatToDigits(n) ==
    IF n < 10 THEN <<DigitChar(n)>>
    ELSE Append(NatToDigits(n \div 10), DigitChar(n % 10))

RECURSIVE Zeros(_)
Zeros(n) == IF n <= 0 THEN <<>> ELSE <<"0">> \o Zeros(n - 1)

\* number of leading decimal digits of s
RECURSIVE DigitRun(_)
DigitRun(s) ==
    IF s # <<>> /\ Head(s) \in Digits THEN 1 + DigitRun(Tail(s)) ELSE 0

\* s[n:]
SliceFrom(s, n) == IF n >= Len(s) THEN <<>> ELSE SubSeq(s, n + 1, Len(s))

\* seq[i] of a Python list, zero-based
ListIndex(seq, i) ==
    IF i < Len(seq) THEN Returns(seq[i + 1]) ELSE Raises("IndexError")

\* str.split(sep) with a one-character separator
RECURSIVE SplitAcc(_, _, _, _)
SplitAcc(s, sep, cur, acc) ==
    IF s = <<>> THEN Append(acc, cur)
    ELSE IF Head(s) = sep
         THEN SplitAcc(Tail(s), sep, <<>>, Append(acc, cur))
         ELSE SplitAcc(Tail(s), sep, Append(cur, Head(s)), acc)

split(s, sep) == SplitAcc(s, sep, <<>>, <<>>)

-----------------------------------------------------------------------------
(* Floating-point values are kept as exact decimals (-1)^neg * m * 10^e,   *)
(* with m not divisible by 10 unless the value is zero. Every value the    *)
(* bounds produce has at most MaxSuffixLen significant digits.             *)

RECURSIVE Normalise(_)
Normalise(d) ==
    IF d.m = 0 THEN [neg |-> d.neg, m |-> 0, e |-> 0]
    ELSE IF d.m % 10 = 0
         THEN Normalise([neg |-> d.neg, m |-> d.m \div 10, e |-> d.e + 1])
         ELSE d

\* float(s): [sign] (digits [. [digits]] | . digits) [(e|E) [sign] digits]
\* parsed left to right; any text left over is a ValueError
FloatValue(neg, intDigits, fracDigits, expNeg, expDigits) ==
    Returns(Normalise(
        [neg |-> neg,
         m |-> DigitsToNat(intDigits \o fracDigits),
         e |-> (IF expNeg THEN 0 - DigitsToNat(expDigits)
                ELSE DigitsToNat(expDigits)) - Len(fracDigits)]))

FloatExpDigits(neg, intDigits, fracDigits, expNeg, s) ==
    IF s # <<>> /\ DigitRun(s) = Len(s)
    THEN FloatValue(neg, intDigits, fracDigits, expNeg, s)
    ELSE Raises("ValueError")

FloatExponent(neg, intDigits, fracDigits, s) ==
    IF Len(intDigits) + Len(fracDigits) = 0 THEN Raises("ValueError")
    ELSE IF s = <<>> THEN FloatValue(neg, intDigits, fracDigits, FALSE, <<>>)
    ELSE IF Head(s) \notin {"e", "E"} THEN Raises("ValueError")
    ELSE IF Tail(s) # <<>> /\ Head(Tail(s)) \in {"-", "+"}
         THEN FloatExpDigits(neg, intDigits, fracDigits,
                             Head(Tail(s)) = "-", Tail(Tail(s)))
         ELSE FloatExpDigits(neg, intDigits, fracDigits, FALSE, Tail(s))

FloatFraction(neg, intDigits, s) ==
    IF s # <<>> /\ Head(s) = "."
    THEN FloatExponent(neg, intDigits, SubSeq(Tail(s), 1, DigitRun(Tail(s))),
                       SliceFrom(Tail(s), DigitRun(Tail(s))))
    ELSE FloatExponent(neg, intDigits, <<>>, s)

FloatMantissa(neg, s) ==
    FloatFraction(neg, SubSeq(s, 1, DigitRun(s)), SliceFrom(s, DigitRun(s)))

float(s) ==
    IF s # <<>> /\ Head(s) \in {"-", "+"}
    THEN FloatMantissa(Head(s) = "-", Tail(s))
    ELSE FloatMantissa(FALSE, s)

RECURSIVE Log10(_)
Log10(k) == IF k < 10 THEN 0 ELSE 1 + Log10(k \div 10)

\* x / k for k a power of ten
DivideBy(d, k) == Normalise([neg |-> d.neg, m |-> d.m, e |-> d.e - Log10(k)])

\* str(x) of a float: the shortest repr, exponent form when the decimal
\* point falls outside (-4, 16]
ExponentText(ex) ==
    <<"e", IF ex < 0 THEN "-" ELSE "+">>
        \o (IF ex > -10 /\ ex < 10 THEN <<"0">> ELSE <<>>)
        \o NatToDigits(IF ex < 0 THEN 0 - ex ELSE ex)

\* ds: the significant digits, decpt: digits before the decimal point
FloatDigitsStr(ds, decpt) ==
    IF decpt > -4 /\ decpt <= 16
    THEN IF decpt >= Len(ds)
         THEN ds \o Zeros(decpt - Len(ds)) \o <<".", "0">>
         ELSE IF decpt > 0
              THEN SubSeq(ds, 1, decpt) \o <<".">>
                       \o SubSeq(ds, decpt + 1, Len(ds))
              ELSE <<"0", ".">> \o Zeros(0 - decpt) \o ds
    ELSE <<ds[1]>>
             \o (IF Len(ds) > 1 THEN <<".">> \o SubSeq(ds, 2, Len(ds))
                 ELSE <<>>)
             \o ExponentText(decpt - 1)

FloatStr(d) ==
    (IF d.neg THEN <<"-">> ELSE <<>>)
        \o (IF d.m = 0 THEN <<"0", ".", "0">>
            ELSE FloatDigitsStr(NatToDigits(d.m), Len(NatToDigits(d.m)) + d.e))

-----------------------------------------------------------------------------
(* class Thermometer *)

Devices == {"28-a", "28-b"}

\* every order in which the elements of S can be listed
RECURSIVE Orderings(_)
Orderings(S) ==
    IF S = {} THEN {<<>>}
    ELSE UNION {{<<x>> \o t : t \in Orderings(S \ {x})} : x \in S}

\* glob.glob(device_root): the existing device files, in no particular order
glob(files) == Orderings({d \in Devices : files[d] # NoFile})

read_file(files, filePath) ==
    IF files[filePath] = NoFile THEN Raises("FileNotFoundError")
    ELSE Returns(files[filePath])

\* faulty variant: the comparison is off by one
check_connection_off_by_one(roots) == Len(roots) > 1

check_thermometer_connection(roots) == Len(roots) > 0

\* faulty variant: the last resolved device is read, not the first
device_path_last(roots) == roots[Len(roots)]

\* the device file get_temperature opens
device_path(roots) == roots[1]

second_line_of(content) == ListIndex(split(content, "\n"), LineIndex)

\* faulty variant: the last token of the line is taken, second_line.split(" ")[-1]
temperature_data_last(second_line) ==
    ListIndex(split(second_line, " "), Len(split(second_line, " ")) - 1)

temperature_data_of(second_line) ==
    ListIndex(split(second_line, " "), TokenIndex)

\* return float(temperature_data[2:]) / 1000
formatted_temperature(number) ==
    IF number.raised THEN number
    ELSE Returns(DivideBy(number.value, Divisor))

\* temperature_data = second_line.split(" ")[9]
from_temperature_data(temperature_data) ==
    IF temperature_data.raised THEN temperature_data
    ELSE formatted_temperature(
             float(SliceFrom(temperature_data.value, PrefixLen)))

\* second_line = content.split("\n")[1]
from_second_line(second_line) ==
    IF second_line.raised THEN second_line
    ELSE from_temperature_data(temperature_data_of(second_line.value))

\* content = self.read_file(self.ds18b20_roots[0])
from_content(content) ==
    IF content.raised THEN content
    ELSE from_second_line(second_line_of(content.value))

\* get_temperature(): [res |-> value returned or exception raised,
\*                     opened |-> the files it opened]
get_temperature(roots, files) ==
    IF check_thermometer_connection(roots)
    THEN [res |-> from_content(read_file(files, device_path(roots))),
          opened |-> <<device_path(roots)>>]
    ELSE [res |-> Raises("Exception"), opened |-> <<>>]

-----------------------------------------------------------------------------
(* Device contents the model draws from *)

Alphabet == {"0", "1", "-", ".", "e", "x"}

Texts(n) == UNION {[1..k -> Alphabet] : k \in 0..n}

\* tenth tokens: the sensor's prefix and any text, another prefix, and
\* tokens shorter than the prefix
TenthTokens ==
    {<<"t", "=">> \o s : s \in Texts(MaxSuffixLen)}
        \cup {<<"1", "1">> \o s : s \in Texts(1)}
        \cup {<<>>, <<"1">>, <<"t">>}

SampleTokens == {<<"t", "=", "1", "0">>, <<"t", "=", "x">>, <<>>}

\* "b" stands for a scratchpad byte; "t=1" makes every position a
\* plausible reading
Fillers == {<<"b">>, <<"t", "=", "1">>}

RECURSIVE JoinSpace(_)
JoinSpace(toks) ==
    IF toks = <<>> THEN <<>>
    ELSE IF Len(toks) = 1 THEN toks[1]
    ELSE toks[1] \o <<" ">> \o JoinSpace(Tail(toks))

Line(filler, n, tenth) ==
    JoinSpace([i \in 1..n |-> IF i = TokenIndex + 1 THEN tenth ELSE filler])

\* the checksum line of the sensor cut to its verdict, or ten plausible
\* readings
FirstLine(filler) ==
    IF filler = <<"b">> THEN <<"Y", "E", "S">>
    ELSE Line(filler, TokenIndex + 1, filler)

\* a file of two lines; the sensor's own ends with a newline
TwoLines(filler, n, tenth) ==
    FirstLine(filler) \o <<"\n">> \o Line(filler, n, tenth)
        \o (IF filler = <<"b">> THEN <<"\n">> ELSE <<>>)

ReaderContents ==
    {<<>>} \cup {FirstLine(f) : f \in Fillers}
        \cup {TwoLines(f, n, t) :
                f \in Fillers, n \in 0..MaxTokens, t \in SampleTokens}
        \cup {TwoLines(f, TokenIndex + 1, t) :
                f \in Fillers, t \in TenthTokens}

Sensor(text) == TwoLines(<<"b">>, TokenIndex + 1, <<"t", "=">> \o text)

SampleContents ==
    {Sensor(<<"1", "0">>), Sensor(<<"-", "1">>), Sensor(<<"x">>),
     TwoLines(<<"b">>, TokenIndex, <<>>)}

\* file systems of the reader: any content on one device, a sensor or
\* nothing on the other
ReaderFiles ==
    {[d \in Devices |-> IF d = "28-a" THEN a ELSE b] :
        a \in ReaderContents \cup {NoFile},
        b \in {Sensor(<<"1", "0">>), Sensor(<<"x">>), NoFile}}

\* file systems of the monitor: two devices, each a sample or absent
MonitorFiles == [Devices -> SampleContents \cup {NoFile}]

\* sys.platform of the hosts the script may be started on
Hosts == {"linux", "darwin", "win32"}

\* times of day the script may be started at
StartClocks == {DaySeconds - SleepSeconds}

\* a sensor read ends within the second it began in, or in the next
ReadSeconds == {0, 1}

-----------------------------------------------------------------------------
(* The Thermometer class driven through its methods *)

ReaderInit ==
    /\ host = "linux"
    /\ fs \in ReaderFiles
    /\ clock = 0
    /\ pc = "new"
    /\ exitCode = Running
    /\ ds18b20_roots = <<>>
    /\ actual_temp = None
    /\ actual_time = None
    /\ tick = 0
    /\ stdout = <<>>
    /\ payloads = <<>>
    /\ coroutines = 0
    /\ sent = <<>>
    /\ opened = <<>>
    /\ tickStart = 0
    /\ ret = Returns(None)

\* t = Thermometer(device_root)
ThermometerInit ==
    /\ pc = "new"
    /\ ds18b20_roots' \in glob(fs)
    /\ pc' = "ready"
    /\ UNCHANGED <<host, fs, clock, exitCode, actual_temp, actual_time, tick,
                   stdout, payloads, coroutines, sent, opened, tickStart, ret>>

\* t.check_thermometer_connection()
CallCheckConnection ==
    /\ pc \in {"ready", "checked", "got"}
    /\ ret' = Returns(check_thermometer_connection(ds18b20_roots))
    /\ opened' = <<>>
    /\ pc' = "checked"
    /\ UNCHANGED <<host, fs, clock, exitCode, ds18b20_roots, actual_temp,
                   actual_time, tick, stdout, payloads, coroutines, sent,
                   tickStart>>

\* t.get_temperature()
CallGetTemperature ==
    /\ pc \in {"ready", "checked", "got"}
    /\ LET r == get_temperature(ds18b20_roots, fs)
       IN  /\ ret' = r.res
           /\ opened' = r.opened
    /\ pc' = "got"
    /\ UNCHANGED <<host, fs, clock, exitCode, ds18b20_roots, actual_temp,
                   actual_time, tick, stdout, payloads, coroutines, sent,
                   tickStart>>

ReaderNext == ThermometerInit \/ CallCheckConnection \/ CallGetTemperature

ReaderSpec == ReaderInit /\ [][ReaderNext]_vars

-----------------------------------------------------------------------------
(* The script, lines 97-154 *)

\* the name "platform" in main.py is bound to the imported module
platform == "<module 'platform'>"

is_linux_os == platform = "linux" \/ platform = "linux2"

TwoDigits(n) == <<DigitChar(n \div 10), DigitChar(n % 10)>>

\* datetime.now().strftime("%H:%M:%S")
strftime(t) ==
    TwoDigits((t % DaySeconds) \div 3600) \o <<":">>
        \o TwoDigits((t \div 60) % 60) \o <<":">> \o TwoDigits(t % 60)

\* one printed line
Printed(kind, time, text) == [kind |-> kind, time |-> time, text |-> text]

\* f'{{"time": "{actual_time}", "temperature": "{actual_temp}"}}'
\* kept as its two quoted fields
Payload(time, temp) == [time |-> time, temperature |-> FloatStr(temp)]

Init ==
    /\ host \in Hosts
    /\ fs \in MonitorFiles
    /\ clock \in StartClocks
    /\ pc = "check_os"
    /\ exitCode = Running
    /\ ds18b20_roots = <<>>
    /\ actual_temp = None
    /\ actual_time = None
    /\ tick = 0
    /\ stdout = <<>>
    /\ payloads = <<>>
    /\ coroutines = 0
    /\ sent = <<>>
    /\ opened = <<>>
    /\ tickStart = 0
    /\ ret = Returns(None)

\* lines 116-119
CheckOS ==
    /\ pc = "check_os"
    /\ IF ~is_linux_os
       THEN /\ stdout' = Append(stdout, Printed("os_error", <<>>, <<>>))
            /\ exitCode' = ExitFailure
            /\ pc' = "exited"
       ELSE /\ pc' = "motd"
            /\ UNCHANGED <<stdout, exitCode>>
    /\ UNCHANGED <<host, fs, clock, ds18b20_roots, actual_temp, actual_time,
                   tick, payloads, coroutines, sent, opened, tickStart, ret>>

\* line 121
Motd ==
    /\ pc = "motd"
    /\ stdout' = Append(stdout, Printed("motd", <<>>, <<>>))
    /\ clock' = clock + MotdSeconds
    /\ pc' = "construct"
    /\ UNCHANGED <<host, fs, exitCode, ds18b20_roots, actual_temp,
                   actual_time, tick, payloads, coroutines, sent, opened,
                   tickStart, ret>>

\* lines 124-126
Construct ==
    /\ pc = "construct"
    /\ ds18b20_roots' \in glob(fs)
    /\ pc' = "diagnostic"
    /\ UNCHANGED <<host, fs, clock, exitCode, actual_temp, actual_time, tick,
                   stdout, payloads, coroutines, sent, opened, tickStart, ret>>

\* lines 130-135
DiagnosticRead ==
    /\ pc = "diagnostic"
    /\ \E d \in ReadSeconds :
         LET r == get_temperature(ds18b20_roots, fs)
         IN  /\ ret' = r.res
             /\ opened' = r.opened
             /\ clock' = clock + (IF r.opened = <<>> THEN 0 ELSE d)
             /\ IF r.res.raised
                THEN /\ stdout' = Append(stdout,
                                    Printed("error", <<>>, <<r.res.exc>>))
                     /\ exitCode' = ExitFailure
                     /\ pc' = "exited"
                     /\ UNCHANGED actual_temp
                ELSE /\ actual_temp' = r.res.value
                     /\ stdout' = Append(stdout,
                                    Printed("value", <<>>,
                                            FloatStr(r.res.value)))
                     /\ pc' = "loop"
                     /\ UNCHANGED exitCode
    /\ UNCHANGED <<host, fs, ds18b20_roots, actual_time, tick, payloads,
                   coroutines, sent, tickStart>>

\* faulty variant: the exception is swallowed and the iteration carries on
\* with the value of the previous read
TickReadStale ==
    /\ pc = "loop"
    /\ tick < MaxTicks
    /\ tick' = tick + 1
    /\ tickStart' = clock
    /\ actual_time' = strftime(clock)
    /\ \E d \in ReadSeconds :
         LET r == get_temperature(ds18b20_roots, fs)
         IN  /\ ret' = r.res
             /\ opened' = r.opened
             /\ clock' = clock + d
             /\ actual_temp' = IF r.res.raised THEN actual_temp
                               ELSE r.res.value
             /\ stdout' = Append(stdout,
                                 Printed("tick", strftime(clock),
                                         FloatStr(actual_temp')))
             /\ pc' = "publish"
             /\ UNCHANGED exitCode
    /\ UNCHANGED <<host, fs, ds18b20_roots, payloads, coroutines, sent>>

\* lines 143-145; an exception of get_temperature is not caught and ends
\* the process with status 1
TickRead ==
    /\ pc = "loop"
    /\ tick < MaxTicks
    /\ tick' = tick + 1
    /\ tickStart' = clock
    /\ actual_time' = strftime(clock)
    /\ \E d \in ReadSeconds :
         LET r == get_temperature(ds18b20_roots, fs)
         IN  /\ ret' = r.res
             /\ opened' = r.opened
             /\ clock' = clock + d
             /\ IF r.res.raised
                THEN /\ exitCode' = ExitFailure
                     /\ pc' = "exited"
                     /\ UNCHANGED <<actual_temp, stdout>>
                ELSE /\ actual_temp' = r.res.value
                     /\ stdout' = Append(stdout,
                                    Printed("tick", strftime(clock),
                                            FloatStr(r.res.value)))
                     /\ pc' = "publish"
                     /\ UNCHANGED exitCode
    /\ UNCHANGED <<host, fs, ds18b20_roots, payloads, coroutines, sent>>

\* faulty variant: the payload is stamped when it is built, not with the
\* time taken at the start of the iteration
TickPublishStampedLate ==
    /\ pc = "publish"
    /\ payloads' = Append(payloads, Payload(strftime(clock), actual_temp))
    /\ coroutines' = coroutines + 1
    /\ pc' = "sleep"
    /\ UNCHANGED <<host, fs, clock, exitCode, ds18b20_roots, actual_temp,
                   actual_time, tick, stdout, sent, opened, tickStart, ret>>

\* lines 148-151; pushData is a coroutine function and the call is not
\* awaited: it builds a coroutine object and runs none of lines 86-94
TickPublish ==
    /\ pc = "publish"
    /\ payloads' = Append(payloads, Payload(actual_time, actual_temp))
    /\ coroutines' = coroutines + 1
    /\ pc' = "sleep"
    /\ UNCHANGED <<host, fs, clock, exitCode, ds18b20_roots, actual_temp,
                   actual_time, tick, stdout, sent, opened, tickStart, ret>>

\* line 154
TickSleep ==
    /\ pc = "sleep"
    /\ clock' = clock + SleepSeconds
    /\ pc' = "loop"
    /\ UNCHANGED <<host, fs, exitCode, ds18b20_roots, actual_temp,
                   actual_time, tick, stdout, payloads, coroutines, sent,
                   opened, tickStart, ret>>

\* the sensor rewrites its file, is unplugged or is plugged in between reads
SensorUpdate ==
    /\ pc = "loop"
    /\ tick < MaxTicks
    /\ \E d \in Devices, c \in SampleContents \cup {NoFile} :
         /\ fs[d] # c
         /\ fs' = [fs EXCEPT ![d] = c]
    /\ UNCHANGED <<host, clock, pc, exitCode, ds18b20_roots, actual_temp,
                   actual_time, tick, stdout, payloads, coroutines, sent,
                   opened, tickStart, ret>>

\* the script run as __main__: is_linux_os() is false on every host, so
\* control never passes line 119
Next == CheckOS

Spec == Init /\ [][Next]_vars

\* the monitoring routine, entered at line 121
LoopInit ==
    /\ host = "linux"
    /\ fs \in MonitorFiles
    /\ clock \in StartClocks
    /\ pc = "motd"
    /\ exitCode = Running
    /\ ds18b20_roots = <<>>
    /\ actual_temp = None
    /\ actual_time = None
    /\ tick = 0
    /\ stdout = <<>>
    /\ payloads = <<>>
    /\ coroutines = 0
    /\ sent = <<>>
    /\ opened = <<>>
    /\ tickStart = 0
    /\ ret = Returns(None)

LoopNext ==
    \/ Motd
    \/ Construct
    \/ DiagnosticRead
    \/ TickRead
    \/ TickPublish
    \/ TickSleep
    \/ SensorUpdate

LoopSpec == LoopInit /\ [][LoopNext]_vars

-----------------------------------------------------------------------------
(* What the claims speak of, stated from the wire format rather than from  *)
(* the parser: pieces of a text are located by separator positions.        *)

Existing == {d \in Devices : fs[d] # NoFile}

\* position of the k-th separator of s; 0 before the text, Len + 1 past
\* the last separator
Boundary(s, sep, k) ==
    IF k = 0 THEN 0
    ELSE IF Cardinality({i \in 1..Len(s) : s[i] = sep}) < k THEN Len(s) + 1
    ELSE CHOOSE i \in 1..Len(s) :
             /\ s[i] = sep
             /\ Cardinality({j \in 1..(i - 1) : s[j] = sep}) = k - 1

PieceCount(s, sep) == Cardinality({i \in 1..Len(s) : s[i] = sep}) + 1

\* the k-th piece of s, counted from 0
Piece(s, sep, k) ==
    SubSeq(s, Boundary(s, sep, k) + 1, Boundary(s, sep, k + 1) - 1)

HasSecondLine(content) == PieceCount(content, "\n") >= 2

SecondLine(content) == Piece(content, "\n", 1)

HasTenthToken(content) ==
    HasSecondLine(content) /\ PieceCount(SecondLine(content), " ") >= 10

\* the tenth token without its two-character prefix
Suffix(content) ==
    LET token == Piece(SecondLine(content), " ", 9)
    IN  IF Len(token) <= 2 THEN <<>> ELSE SubSeq(token, 3, Len(token))

Unsigned(text) == IF text # <<>> /\ text[1] \in {"-", "+"} THEN Tail(text) ELSE text

IsDecimalInteger(text) ==
    /\ Unsigned(text) # <<>>
    /\ \A i \in 1..Len(Unsigned(text)) : Unsigned(text)[i] \in Digits

RECURSIVE PlaceSum(_, _)
PlaceSum(ds, i) ==
    IF i > Len(ds) THEN 0
    ELSE DigitVal(ds[i]) * Pow10(Len(ds) - i) + PlaceSum(ds, i + 1)

IntegerOf(text) ==
    IF text[1] = "-" THEN 0 - PlaceSum(Unsigned(text), 1)
    ELSE PlaceSum(Unsigned(text), 1)

\* the decimal d equals n / 1000
IsThousandthsOf(d, n) ==
    LET signed == IF d.neg THEN 0 - d.m ELSE d.m
    IN  IF d.e + 3 >= 0 THEN signed * Pow10(d.e + 3) = n
        ELSE signed = n * Pow10(0 - (d.e + 3))

WellFormed(content) ==
    /\ content # NoFile
    /\ HasTenthToken(content)
    /\ IsDecimalInteger(Suffix(content))

\* a get_temperature call has just returned or raised, on a connected reader
ReadDone == pc = "got" /\ ds18b20_roots # <<>>

FirstContent == fs[ds18b20_roots[1]]

TickLines == SelectSeq(stdout, LAMBDA l : l.kind = "tick")

-----------------------------------------------------------------------------
(* Claims *)

\* C1 (a failed publish step is contained and the next tick runs) has no
\* formula: TickPublish, the whole of lines 148-151 as they execute, has no
\* failing outcome, so no reachable state shows a failed publish step.

\* C2: every tick whose sensor read succeeds makes a transmission attempt:
\* by the time the tick reaches its sleep, the sink's send operation has been
\* invoked with that tick's payload.
C2_SendBeforeSleep ==
    pc = "sleep" =>
        /\ Len(sent) = tick
        /\ sent[tick] = payloads[tick]

\* C3: the process exits with code 1 at startup only if the host is not
\* Linux or the initial diagnostic read failed.
C3_ExitOnlyOnPreconditionOrDiagnostic ==
    (pc = "exited" /\ exitCode = ExitFailure /\ tick = 0) =>
        \/ host # "linux"
        \/ (stdout # <<>> /\ stdout[Len(stdout)].kind = "error")

\* C4: a sensor read failure during a tick is fatal: the process is stopped
\* at that tick with a non-zero status, nothing is logged or published for
\* that tick (so no earlier value stands in for it), and no later tick runs.
C4_ReadFailureIsFatal ==
    (tick >= 1 /\ ret.raised) =>
        /\ pc = "exited"
        /\ exitCode = ExitFailure
        /\ Len(payloads) = tick - 1
        /\ coroutines = tick - 1
        /\ Len(TickLines) = tick - 1

C4_Witness ==
    /\ pc = "exited"
    /\ tick = 2
    /\ ret.raised
    /\ ret.exc = "ValueError"
    /\ Len(payloads) = 1

\* C5: when the device content has no second line, or its second line has
\* fewer than 10 space-separated tokens, get_temperature raises and returns
\* no value.
C5_ShortContentRaises ==
    (ReadDone /\ ~HasTenthToken(FirstContent)) => ret.raised

C5_Witness ==
    /\ ReadDone
    /\ HasSecondLine(FirstContent)
    /\ PieceCount(SecondLine(FirstContent), " ") = 9
    /\ Piece(SecondLine(FirstContent), " ", 8) = <<"t", "=", "1">>
    /\ ret.raised
    /\ ret.exc = "IndexError"

\* C6: when the tenth token of line two, without its first two characters,
\* is not a decimal integer, get_temperature raises and returns no value.
C6_NonIntegerRaises ==
    (ReadDone /\ HasTenthToken(FirstContent)
        /\ ~IsDecimalInteger(Suffix(FirstContent))) => ret.raised

\* C7: for well-formed content, get_temperature returns the integer after
\* the two-character prefix of the tenth token of line two, divided by 1000,
\* and reads the first resolved device only.
C7_ReturnsThousandths ==
    (ReadDone /\ WellFormed(FirstContent)) =>
        /\ ~ret.raised
        /\ IsThousandthsOf(ret.value, IntegerOf(Suffix(FirstContent)))
        /\ opened = <<ds18b20_roots[1]>>

C7_Witness ==
    /\ ReadDone
    /\ ds18b20_roots = <<"28-a", "28-b">>
    /\ Suffix(fs["28-a"]) = <<"-", "1", "1">>
    /\ HasTenthToken(fs["28-a"])
    /\ fs["28-b"] = Sensor(<<"x">>)
    /\ ~ret.raised
    /\ ret.value = [neg |-> TRUE, m |-> 11, e |-> -3]

\* C8: on a Linux host where the pattern matches no device, the process ends
\* with code 1 after a diagnostic read that failed with the device-not-found
\* error.
C8_NoDeviceFailsDiagnostic ==
    (pc = "exited" /\ host = "linux" /\ Existing = {}) =>
        /\ exitCode = ExitFailure
        /\ stdout # <<>>
        /\ stdout[Len(stdout)] = Printed("error", <<>>, <<"Exception">>)

\* C9: check_thermometer_connection() is true iff the constructor resolved
\* at least one device; the constructor stores what glob finds, also when
\* that is nothing; get_temperature on a disconnected reader raises the
\* device-not-found exception without opening a file; no call changes the
\* resolved devices.
C9_ConnectionState ==
    /\ pc # "new" => Len(ds18b20_roots) = Cardinality(Existing)
    /\ pc = "checked" => ret.value = (Existing # {})
    /\ (pc = "got" /\ Existing = {}) =>
            /\ ret.raised
            /\ ret.exc = "Exception"
            /\ opened = <<>>

C9_RootsFixed == [][pc # "new" => ds18b20_roots' = ds18b20_roots]_vars

C10_PayloadOfThisTick ==
    pc = "sleep" =>
        /\ Len(payloads) = tick
        /\ DOMAIN payloads[tick] = {"time", "temperature"}
        /\ payloads[tick].time = strftime(tickStart)
        /\ payloads[tick].temperature = FloatStr(ret.value)
        /\ stdout[Len(stdout)] =
               Printed("tick", payloads[tick].time, payloads[tick].temperature)

C10_Witness ==
    /\ pc = "sleep"
    /\ tick = 2
    /\ clock # tickStart
    /\ payloads[1] = [time |-> <<"2", "3", ":", "5", "5", ":", "0", "3">>,
                      temperature |-> <<"0", ".", "0", "1">>]
    /\ payloads[2] = [time |-> <<"0", "0", ":", "0", "0", ":", "0", "3">>,
                      temperature |-> <<"-", "0", ".", "0", "0", "1">>]

=============================================================================
